---- MODULE Spec2Model ----
(***************************************************************************)
(* Model of the NL2SQL backend: the /query handler of backend/main.py,     *)
(* llm_api_call, clean_sql_output, and the database helpers of             *)
(* backend/utils/db_utils.py and backend/utils/table_extraction.py.        *)
(*                                                                         *)
(* Texts are sequences of atoms (a word, a run of whitespace "ws", a       *)
(* markdown fence "fence", the letters "sql").  Result sets are modelled   *)
(* by their row count, so the preview limit keeps its real value.          *)
(***************************************************************************)
EXTENDS Integers, Sequences, FiniteSets, TLC

\* ------------------------------------------------------------------ bounds
NumRequests == 2
NumSessions == 2
ExtraRows == 1
MaxTables == 1
MaxExample == 1       \* the example buttons 1..MaxExample are clicked

\* ------------------------------------------------------- program constants
PreviewRowLimit == 10000
max_retries == 3

Requests == 1..NumRequests
Sessions == 1..NumSessions
None == "None"
NoRequest == 0
NoList == 0
NoSession == 0
NoConn == <<>>
Tool == NumRequests + 1

\* the question text of request r; every request asks a text of its own
QuestionOf(r) == <<"question", r>>

\* cardinalities the database may produce for a statement
RowCounts == {0, PreviewRowLimit, PreviewRowLimit + ExtraRows}

\* names the INFORMATION_SCHEMA query may return for the configured database
SchemaNames == {"orders", "ERROR_LOG"}

ForbiddenVerbs ==
    {"delete", "insert", "update", "drop", "alter", "truncate", "create", "replace", "merge"}

\* --------------------------------------------------------- text operators
RECURSIVE LStrip(_)
LStrip(t) == IF t # <<>> /\ Head(t) = "ws" THEN LStrip(Tail(t)) ELSE t

RECURSIVE RStrip(_)
RStrip(t) ==
    IF t # <<>> /\ t[Len(t)] = "ws" THEN RStrip(SubSeq(t, 1, Len(t) - 1)) ELSE t

\* str.strip()
Strip(t) == RStrip(LStrip(t))

StartsWithSqlFence(t) == Len(t) >= 2 /\ t[1] = "fence" /\ t[2] = "sql"

EndsWithFence(t) == t # <<>> /\ t[Len(t)] = "fence"

clean_sql_output(text) ==
    LET t1 == Strip(text)
        t2 == IF StartsWithSqlFence(t1) THEN SubSeq(t1, 3, Len(t1)) ELSE t1
        t3 == IF EndsWithFence(t2) THEN SubSeq(t2, 1, Len(t2) - 1) ELSE t2
    IN  Strip(t3)

\* a forbidden verb standing as a word of its own (atoms are whole words)
HasForbiddenVerb(stmt) == \E i \in 1..Len(stmt) : stmt[i] \in ForbiddenVerbs

\* `"ERROR" in db_schema`: substring test over the rendered schema text
ContainsERROR(text) == \E i \in 1..Len(text) : text[i] \in {"ERROR", "ERROR_LOG"}

\* ------------------------------------------------- values of results_data
ErrorResult(msg) == [kind |-> "error", error |-> msg, n |-> 0]
RowsResult(n) == [kind |-> "rows", error |-> None, n |-> n]
NoResult == [kind |-> "none", error |-> None, n |-> 0]

\* Python truthiness of results_data: a non-empty list, or the error dict
Truthy(res) == res.kind = "error" \/ (res.kind = "rows" /\ res.n > 0)

\* `"error" in results_data`: key test on the dict; on a list of row dicts
\* the string never equals an element
HasErrorKey(res) == res.kind = "error"

\* variant: `if not results_data or "error" in results_data`
IsExecutionErrorAlways(res) == ~(res.kind = "rows" /\ res.n > 0)
IsExecutionError(res) == Truthy(res) /\ HasErrorKey(res)

Min(a, b) == IF a < b THEN a ELSE b

\* cursor.fetchmany(size)
fetchmany(n, size) == Min(n, size)


\* ------------------------------------------------------------------ state
VARIABLES
    DATABASE_URL,      \* TRUE iff the DATABASE_URL environment variable is set
    DB_PORT_ok,        \* TRUE iff int(DB_PORT) succeeds
    chat_history_db,   \* session id -> reference of its list, or None
    front,             \* one browser session of the Streamlit frontend
    heap,              \* list objects: heap[r] is the list created by request r
    loop,              \* the request the event loop is running, or None
    open,              \* database connections that are open: <<caller, k>>
    req,               \* per request: position and locals of the handler
    sent,              \* the response sent last, and to which request
    tool               \* one invocation of get_full_db_schema

vars == <<DATABASE_URL, DB_PORT_ok, chat_history_db, front, heap, loop, open, req, sent, tool>>

config == <<DATABASE_URL, DB_PORT_ok>>

NoLlm == [kind |-> "none", text |-> <<>>]
\* `to` is the request answered; `returned` recalls what execute_sql_query
\* had returned to its handler
NoResponse == [to |-> NoRequest, status |-> 0, kind |-> "none", detail |-> None,
               raw_sql |-> <<>>, results_data |-> NoResult, summary |-> <<>>,
               returned |-> NoResult]

InitReq ==
    [pc |-> "idle", session_id |-> NoSession, question |-> <<>>,
     current_history |-> NoList, db_schema |-> <<>>, conn |-> NoConn,
     llm |-> NoLlm, attempt |-> 0, slept |-> <<>>,
     raw_sql |-> <<>>, results_data |-> NoResult, prettified_result |-> None,
     conversational_summary |-> <<>>,
     \* history variables
     prompt_history |-> <<>>, executed |-> <<>>, llm_raised |-> {},
     stored |-> FALSE,
     schema_failed |-> FALSE, llm_calls |-> 0, schema_calls |-> 0, opened |-> 0]

InitTool == [pc |-> "idle", conn |-> NoConn, tables |-> 0, opened |-> 0, result |-> "none"]

\* app.py:16-33 init_session_state: st.session_state after the first script
\* run of a browser session.  The uuid4 session id is a session id no other
\* client uses.  clicked, example and query are the widget values of the
\* script run, query_to_execute and awaiting are locals of
\* process_query_execution, resume is the call site it returns to;
\* asked recalls the texts stored by the actions that set run_query_flag.
InitFront ==
    [pc |-> "idle", session_id |-> 1, query_text |-> <<>>,
     run_query_flag |-> FALSE, history |-> <<>>,
     clicked |-> "none", example |-> 0, query |-> <<>>,
     query_to_execute |-> <<>>, awaiting |-> NoRequest, resume |-> "none",
     asked |-> <<>>]

Init ==
    /\ DATABASE_URL \in BOOLEAN
    /\ DB_PORT_ok \in BOOLEAN
    /\ chat_history_db = [s \in Sessions |-> NoList]
    /\ front = InitFront
    /\ heap = [r \in Requests |-> <<>>]
    /\ loop = NoRequest
    /\ open = {}
    /\ req = [r \in Requests |-> InitReq]
    /\ sent = NoResponse
    /\ tool = InitTool

\* ------------------------------------------------------------- event loop
\* The handler is `async def` and contains no await: once the event loop
\* starts a request's coroutine it runs it to its end before any other.
\* The coroutines wait in the loop's ready queue, which is first in, first
\* out: a free loop starts the request that was read first.
\* variant: handlers run in worker threads and interleave freely
CanRunThreaded(r) == TRUE
CanRun(r) ==
    \/ loop = r
    \/ loop = NoRequest /\ \A p \in Requests : p < r => req[p].pc = "done"

\* the session's log as a reader of chat_history_db sees it
Log(s) == IF chat_history_db[s] = NoList THEN <<>> ELSE heap[chat_history_db[s]]

\* chat_history_db.get(session_id, []): the stored list itself, or a new one
\* variant: the handler always starts from a new list
HistoryGetFresh(s, r) == r
\* variant: the key is ignored and some stored list is handed out
HistoryGetAny(s, r) ==
    IF \E t \in Sessions : chat_history_db[t] # NoList
    THEN chat_history_db[CHOOSE t \in Sessions : chat_history_db[t] # NoList]
    ELSE r
HistoryGet(s, r) == IF chat_history_db[s] # NoList THEN chat_history_db[s] ELSE r

Entry(kind, text, r) == [kind |-> kind, text |-> text, by |-> r]

\* list.append
\* variant: the entry is not added
ListAppendDropped(list, e) == list
ListAppend(list, e) == Append(list, e)

\* the handler goes on with its locals as in rec
Continue(r, rec) ==
    /\ req' = [req EXCEPT ![r] = rec]
    /\ loop' = r
    /\ sent' = sent

\* when the coroutine is over its locals are gone; the request body and the
\* history variables remain
Done(rec) ==
    [InitReq EXCEPT !.pc = "done",
                    !.session_id = rec.session_id, !.question = rec.question,
                    !.executed = rec.executed, !.llm_raised = rec.llm_raised,
                    !.schema_failed = rec.schema_failed, !.stored = rec.stored,
                    !.llm_calls = rec.llm_calls,
                    !.schema_calls = rec.schema_calls, !.opened = rec.opened]

\* the handler raises or returns with its locals as in rec: the response is
\* sent and the event loop is free
Finish(r, rec, resp) ==
    /\ req' = [req EXCEPT ![r] = Done(rec)]
    /\ loop' = NoRequest
    /\ sent' = [resp EXCEPT !.to = r, !.returned = rec.results_data]

HttpError(kind, detail) ==
    [NoResponse EXCEPT !.status = 500, !.kind = kind, !.detail = detail]

\* session ids are opaque: they are numbered in the order of their first use
UsedSessions == {req[p].session_id : p \in {x \in Requests : req[x].pc # "idle"}}
NextSessions == {s \in Sessions : s <= Cardinality(UsedSessions) + 1}

\* The body {session_id, question} of a waiting request is read and its
\* coroutine is created; this too needs the event loop, so it happens only
\* between handlers.  Requests are numbered in the order they are read.
\* main.py never imports table_extraction: a process that serves requests
\* does not run get_full_db_schema.
Arrive(r) ==
    /\ req[r].pc = "idle"
    /\ loop = NoRequest
    /\ tool.pc = "idle"
    /\ \A p \in Requests : p < r => req[p].pc # "idle"
    /\ \E s \in NextSessions :
         req' = [req EXCEPT ![r] = [@ EXCEPT !.pc = "L160", !.session_id = s,
                                               !.question = QuestionOf(r)]]
    /\ UNCHANGED <<config, front, chat_history_db, heap, loop, open, sent, tool>>

\* main.py:160  current_history = chat_history_db.get(session_id, [])
GetHistory(r) ==
    /\ req[r].pc = "L160"
    /\ CanRun(r)
    /\ Continue(r, [req[r] EXCEPT !.pc = "L161",
                      !.current_history = HistoryGet(req[r].session_id, r)])
    /\ UNCHANGED <<config, front, chat_history_db, heap, open, tool>>

\* ------------------------------------------------------ get_db_connection
\* "raise": int(DB_PORT) raises TypeError/ValueError, which the
\*          `except MySQLError` does not catch;
\* "connect_failed": mysql.connector.connect raises MySQLError;
\* "session_failed": the connection is open and conn.cursor() or one of
\*          the SET SESSION statements raises MySQLError;
\* "ok": the connection is returned.
GetDbConnOutcomes ==
    IF DB_PORT_ok THEN {"connect_failed", "session_failed", "ok"} ELSE {"raise"}

ConnOpened(o) == o \in {"session_failed", "ok"}

\* the value get_db_connection returns to caller c on outcome o
ConnReturned(c, k, o) == IF o = "ok" THEN <<c, k>> ELSE NoConn

\* the open connections after get_db_connection, called by c, ended with o
OpenAfter(c, k, o) == IF ConnOpened(o) THEN open \cup {<<c, k>>} ELSE open

\* the `finally` blocks of extract_db_schema and execute_sql_query
CloseConn(conns, c) == conns \ {c}

UnhandledError == [NoResponse EXCEPT !.status = 500, !.kind = "unhandled",
                                     !.detail = "Internal Server Error"]

\* ------------------------------------------------------- extract_db_schema
\* db_utils.py:77  conn = get_db_connection()
ExtractConnect(r) ==
    /\ req[r].pc = "L161"
    /\ CanRun(r)
    /\ \E o \in GetDbConnOutcomes :
         LET k == req[r].opened + 1 IN
         /\ open' = OpenAfter(r, k, o)
         /\ IF o = "raise"
            THEN Finish(r, [req[r] EXCEPT !.schema_calls = @ + 1,
                                          !.schema_failed = TRUE],
                        UnhandledError)
            ELSE Continue(r, [req[r] EXCEPT !.pc = "L78",
                                !.schema_calls = @ + 1,
                                !.opened = IF ConnOpened(o) THEN k ELSE @,
                                !.conn = ConnReturned(r, k, o)])
    /\ UNCHANGED <<config, front, chat_history_db, heap, tool>>

\* the text extract_db_schema returns
SchemaConnectError == <<"ERROR", "connect">>
SchemaQueryError == <<"ERROR", "extract">>
SchemaText(names) == <<"schema">> \o names

\* db_utils.py:78-122  the metadata query, the rendering and the `finally`
ExtractQuery(r) ==
    /\ req[r].pc = "L78"
    /\ CanRun(r)
    /\ IF req[r].conn = NoConn
       THEN /\ Continue(r, [req[r] EXCEPT !.pc = "L163",
                              !.schema_failed = TRUE,
                              !.db_schema = SchemaConnectError])
            /\ open' = open
       ELSE /\ \E text \in {SchemaQueryError} \cup
                           {SchemaText(<<n>>) : n \in SchemaNames} :
                 Continue(r, [req[r] EXCEPT !.pc = "L163",
                                !.schema_failed = (text = SchemaQueryError),
                                !.db_schema = text, !.conn = NoConn])
            /\ open' = CloseConn(open, req[r].conn)
    /\ UNCHANGED <<config, front, chat_history_db, heap, tool>>

\* main.py:163  if "ERROR" in db_schema
\* variant: the check is missing
SchemaFailedNever(db_schema) == FALSE
SchemaFailed(db_schema) == ContainsERROR(db_schema)

CheckSchema(r) ==
    /\ req[r].pc = "L163"
    /\ CanRun(r)
    /\ IF SchemaFailed(req[r].db_schema)
       THEN Finish(r, req[r],
                   HttpError("schema", "Database schema extraction failed"))
       ELSE Continue(r, [req[r] EXCEPT !.pc = "L168"])
    /\ UNCHANGED <<config, front, chat_history_db, heap, open, tool>>

\* ------------------------------------------------------------ llm_api_call
\* texts the language model may put in candidates[0].content.parts[0].text,
\* for the SQL-generation payload and for the summary payload
LlmTexts(pc) ==
    IF pc = "L169"
    THEN { <<"ws">>,
           <<"select", "ws", "updated_at">>,
           <<"ws", "fence", "sql", "ws", "drop", "ws", "orders", "ws", "fence", "ws">> }
    ELSE { <<"ws">>, <<"ws", "Certainly", "ws">> }

\* what one requests.post and the reading of its body can give
HttpOutcomes(pc) ==
    {[kind |-> "RequestException", text |-> <<>>],
     [kind |-> "IndexError", text |-> <<>>]} \cup
    {[kind |-> "text", text |-> t] : t \in LlmTexts(pc)}

Pow2(k) == 2 ^ k

\* variant: `if text:` is missing and whatever text came is returned
LlmIterationNoTextCheck(attempt, slept, o) ==
    LET last == attempt >= max_retries - 1
    IN  IF o.kind = "text"
        THEN [over |-> TRUE, kind |-> "text", text |-> Strip(o.text),
              attempt |-> attempt, slept |-> slept]
        ELSE IF o.kind = "RequestException" /\ ~last
        THEN [over |-> FALSE, kind |-> "none", text |-> <<>>,
              attempt |-> attempt + 1, slept |-> Append(slept, Pow2(attempt))]
        ELSE [over |-> TRUE, kind |-> "raise", text |-> <<>>,
              attempt |-> attempt, slept |-> slept]

\* one iteration of `for attempt in range(max_retries)` (main.py:57-76);
\* the result says whether the call is over and how
LlmIteration(attempt, slept, o) ==
    LET text == Strip(o.text)
        last == attempt >= max_retries - 1
    IN  IF o.kind = "text" /\ text # <<>>
        THEN [over |-> TRUE, kind |-> "text", text |-> text,
              attempt |-> attempt, slept |-> slept]
        ELSE IF o.kind = "IndexError"
        THEN [over |-> TRUE, kind |-> "raise", text |-> <<>>,
              attempt |-> attempt, slept |-> slept]
        ELSE IF o.kind = "RequestException"
        THEN IF ~last
             THEN [over |-> FALSE, kind |-> "none", text |-> <<>>,
                   attempt |-> attempt + 1, slept |-> Append(slept, Pow2(attempt))]
             ELSE [over |-> TRUE, kind |-> "raise", text |-> <<>>,
                   attempt |-> attempt, slept |-> slept]
        ELSE \* empty text: the loop goes on without waiting, or ends (line 76)
             IF ~last
             THEN [over |-> FALSE, kind |-> "none", text |-> <<>>,
                   attempt |-> attempt + 1, slept |-> slept]
             ELSE [over |-> TRUE, kind |-> "raise", text |-> <<>>,
                   attempt |-> attempt, slept |-> slept]

\* main.py:168-169 and 193-194: build the payload and enter llm_api_call.
\* attempt and slept describe the call of llm_api_call and llm is the value
\* or exception it hands back; the next statement of the handler consumes
\* them.
BuildPrompt(r) ==
    /\ req[r].pc \in {"L168", "L193"}
    /\ CanRun(r)
    /\ Continue(r, [req[r] EXCEPT
                      !.pc = IF req[r].pc = "L168" THEN "L169" ELSE "L194",
                      !.prompt_history = IF req[r].pc = "L168"
                                         THEN heap[req[r].current_history] ELSE @,
                      !.llm_calls = @ + 1, !.llm = NoLlm,
                      !.attempt = 0, !.slept = <<>>])
    /\ UNCHANGED <<config, front, chat_history_db, heap, open, tool>>

LlmAttempt(r) ==
    /\ req[r].pc \in {"L169", "L194"}
    /\ CanRun(r)
    /\ \E o \in HttpOutcomes(req[r].pc) :
         LET it == LlmIteration(req[r].attempt, req[r].slept, o) IN
         Continue(r, [req[r] EXCEPT
                        !.attempt = it.attempt,
                        !.slept = it.slept,
                        !.llm = [kind |-> it.kind, text |-> it.text],
                        !.llm_raised = IF it.over /\ it.kind = "raise"
                                       THEN @ \cup {req[r].pc} ELSE @,
                        !.pc = IF ~it.over THEN @
                               ELSE IF req[r].pc = "L169" THEN "L170" ELSE "L197"])
    /\ UNCHANGED <<config, front, chat_history_db, heap, open, tool>>

\* main.py:166-174: the try around SQL generation
\* variant: the exception is swallowed and the handler goes on
SqlGenFailedNever(llm) == FALSE
SqlGenFailed(llm) == llm.kind = "raise"

AfterSqlGen(r) ==
    /\ req[r].pc = "L170"
    /\ CanRun(r)
    /\ IF SqlGenFailed(req[r].llm)
       THEN Finish(r, req[r], HttpError("llm", "LLM failed to generate SQL"))
       ELSE Continue(r, [req[r] EXCEPT !.pc = "L177", !.llm = NoLlm,
                           !.attempt = 0, !.slept = <<>>,
                           !.raw_sql = clean_sql_output(req[r].llm.text)])
    /\ UNCHANGED <<config, front, chat_history_db, heap, open, tool>>

\* ------------------------------------------------------- execute_sql_query
ConnectionFailedMsg == "DB connection failed"
ExecutionErrorMsg == "SQL execution/DB error"

\* db_utils.py:167-174  pandas.read_sql_query reads the whole result
PandasOutcomes ==
    {[results |-> ErrorResult(ExecutionErrorMsg), prettified |-> None]} \cup
    {[results |-> RowsResult(n), prettified |-> "md"] : n \in RowCounts}

\* db_utils.py:139-156  cursor, execute, fetchmany and the DataFrame step
CursorOutcomes ==
    {[results |-> ErrorResult(ExecutionErrorMsg), prettified |-> None]} \cup
    {[results |-> RowsResult(fetchmany(n, PreviewRowLimit)),
      prettified |-> IF fetchmany(n, PreviewRowLimit) > 0 THEN "md" ELSE ""] :
        n \in RowCounts} \cup
    {[results |-> RowsResult(fetchmany(n, PreviewRowLimit)),
      prettified |-> None] : n \in RowCounts}

\* main.py:177 -> db_utils.py:132-137 (and 167-174 when DATABASE_URL is set)
ExecuteCall(r) ==
    /\ req[r].pc = "L177"
    /\ CanRun(r)
    /\ LET called == [req[r] EXCEPT !.executed = Append(@, req[r].raw_sql)] IN
       IF DATABASE_URL
       THEN /\ \E o \in PandasOutcomes :
                 Continue(r, [called EXCEPT !.pc = "L179",
                                !.results_data = o.results,
                                !.prettified_result = o.prettified])
            /\ open' = open
       ELSE \E o \in GetDbConnOutcomes :
              LET k == req[r].opened + 1 IN
              /\ open' = OpenAfter(r, k, o)
              /\ IF o = "raise"
                 THEN Finish(r, called, UnhandledError)
                 ELSE Continue(r, [called EXCEPT
                                     !.opened = IF ConnOpened(o) THEN k ELSE @,
                                     !.conn = ConnReturned(r, k, o),
                                     !.pc = IF o = "ok" THEN "L139" ELSE "L179",
                                     !.results_data =
                                         IF o = "ok" THEN @
                                         ELSE ErrorResult(ConnectionFailedMsg)])
    /\ UNCHANGED <<config, front, chat_history_db, heap, tool>>

\* db_utils.py:138-165  the mysql.connector path with its `finally`
ExecuteCursor(r) ==
    /\ req[r].pc = "L139"
    /\ CanRun(r)
    /\ \E o \in CursorOutcomes :
         Continue(r, [req[r] EXCEPT !.pc = "L179",
                        !.results_data = o.results,
                        !.prettified_result = o.prettified, !.conn = NoConn])
    /\ open' = CloseConn(open, req[r].conn)
    /\ UNCHANGED <<config, front, chat_history_db, heap, tool>>

\* main.py:179  if results_data and "error" in results_data
CheckResult(r) ==
    /\ req[r].pc = "L179"
    /\ CanRun(r)
    /\ Continue(r, [req[r] EXCEPT
                      !.pc = IF IsExecutionError(req[r].results_data)
                             THEN "L182" ELSE "L189"])
    /\ UNCHANGED <<config, front, chat_history_db, heap, open, tool>>

\* --------------------------------------------------------- history update
\* main.py:182 and 206  current_history.append(f"User Question: {question}")
AppendQuestion(r) ==
    /\ req[r].pc \in {"L182", "L206"}
    /\ CanRun(r)
    /\ heap' = [heap EXCEPT ![req[r].current_history] =
                  ListAppend(@, Entry("User Question", req[r].question, r))]
    /\ Continue(r, [req[r] EXCEPT
                      !.pc = IF req[r].pc = "L182" THEN "L183" ELSE "L207"])
    /\ UNCHANGED <<config, front, chat_history_db, open, tool>>

\* main.py:183 and 207  current_history.append(f"Generated SQL: {raw_sql}")
AppendSql(r) ==
    /\ req[r].pc \in {"L183", "L207"}
    /\ CanRun(r)
    /\ heap' = [heap EXCEPT ![req[r].current_history] =
                  ListAppend(@, Entry("Generated SQL", req[r].raw_sql, r))]
    /\ Continue(r, [req[r] EXCEPT
                      !.pc = IF req[r].pc = "L183" THEN "L184" ELSE "L208"])
    /\ UNCHANGED <<config, front, chat_history_db, open, tool>>

\* main.py:184 and 208  chat_history_db[session_id] = current_history
StoreHistory(r) ==
    /\ req[r].pc \in {"L184", "L208"}
    /\ CanRun(r)
    /\ chat_history_db' = [chat_history_db EXCEPT ![req[r].session_id] =
                             req[r].current_history]
    /\ Continue(r, [req[r] EXCEPT !.stored = TRUE,
                      !.pc = IF req[r].pc = "L184" THEN "L186" ELSE "L211"])
    /\ UNCHANGED <<config, front, heap, open, tool>>

\* main.py:186  raise HTTPException(500, detail=results_data["error"])
RaiseExecutionError(r) ==
    /\ req[r].pc = "L186"
    /\ CanRun(r)
    /\ Finish(r, req[r], HttpError("execution", req[r].results_data.error))
    /\ UNCHANGED <<config, front, chat_history_db, heap, open, tool>>

\* ---------------------------------------------------------------- summary
DefaultSummary == <<"executed, no summary">>
FallbackSummary == <<"retrieved, summary issue">>

\* main.py:189-191
StartSummary(r) ==
    /\ req[r].pc = "L189"
    /\ CanRun(r)
    /\ Continue(r, [req[r] EXCEPT
                      !.conversational_summary = DefaultSummary,
                      !.pc = IF Truthy(req[r].results_data) THEN "L193" ELSE "L206"])
    /\ UNCHANGED <<config, front, chat_history_db, heap, open, tool>>

\* main.py:199  `except Exception` catches whatever llm_api_call raised
\* variant: no try/except around the summary call
SummaryHandlerCatchesNothing(llm) == FALSE
SummaryHandlerCatches(llm) == llm.kind = "raise"

\* main.py:192-202
AfterSummary(r) ==
    /\ req[r].pc = "L197"
    /\ CanRun(r)
    /\ IF req[r].llm.kind = "raise" /\ ~SummaryHandlerCatches(req[r].llm)
       THEN Finish(r, req[r], UnhandledError)
       ELSE Continue(r, [req[r] EXCEPT !.pc = "L206", !.llm = NoLlm,
                           !.attempt = 0, !.slept = <<>>,
                           !.conversational_summary =
                               IF req[r].llm.kind = "raise" THEN FallbackSummary
                               ELSE Strip(req[r].llm.text)])
    /\ UNCHANGED <<config, front, chat_history_db, heap, open, tool>>

\* main.py:211-216  return JSONResponse(...)
Return(r) ==
    /\ req[r].pc = "L211"
    /\ CanRun(r)
    /\ Finish(r, req[r],
              [NoResponse EXCEPT !.status = 200, !.kind = "ok",
                                 !.raw_sql = req[r].raw_sql,
                                 !.results_data = req[r].results_data,
                                 !.summary = req[r].conversational_summary])
    /\ UNCHANGED <<config, front, chat_history_db, heap, open, tool>>

\* ------------------------------------- table_extraction.get_full_db_schema
ToolCall ==
    /\ tool.pc = "idle"
    /\ \A r \in Requests : req[r].pc = "idle"
    /\ tool' = [tool EXCEPT !.pc = "L20"]
    /\ UNCHANGED <<config, front, chat_history_db, heap, loop, open, req, sent>>

\* table_extraction.py:20-22
ToolConnect ==
    /\ tool.pc = "L20"
    /\ \E o \in GetDbConnOutcomes :
         LET k == tool.opened + 1 IN
         /\ open' = OpenAfter(Tool, k, o)
         /\ tool' = [tool EXCEPT
                       !.opened = IF ConnOpened(o) THEN k ELSE @,
                       !.conn = ConnReturned(Tool, k, o),
                       !.pc = IF o = "ok" THEN "L24" ELSE "done",
                       !.result = IF o = "ok" THEN @ ELSE "raised"]
    /\ UNCHANGED <<config, front, chat_history_db, heap, loop, req, sent>>

\* table_extraction.py:24-32  the table list; an error propagates as it is
ToolTables ==
    /\ tool.pc = "L24"
    /\ \/ \E n \in 0..MaxTables : tool' = [tool EXCEPT !.pc = "L35", !.tables = n]
       \/ tool' = [tool EXCEPT !.pc = "done", !.result = "raised"]
    /\ UNCHANGED <<config, front, chat_history_db, heap, loop, open, req, sent>>

\* table_extraction.py:35-47  one iteration of `for t in tables`
ToolColumns ==
    /\ tool.pc = "L35"
    /\ tool.tables > 0
    /\ \/ tool' = [tool EXCEPT !.tables = @ - 1]
       \/ tool' = [tool EXCEPT !.pc = "done", !.result = "raised"]
    /\ UNCHANGED <<config, front, chat_history_db, heap, loop, open, req, sent>>

\* table_extraction.py:49-52  cur.close(); conn.close(); return
ToolClose ==
    /\ tool.pc = "L35"
    /\ tool.tables = 0
    /\ open' = CloseConn(open, tool.conn)
    /\ tool' = [tool EXCEPT !.pc = "done", !.conn = NoConn, !.result = "returned"]
    /\ UNCHANGED <<config, front, chat_history_db, heap, loop, req, sent>>

\* ------------------------------------------------- frontend (app.py)
\* app.py:254-258  the texts of the example buttons
examples ==
    << <<"Show", "ws", "customers">>,
       <<"Show", "ws", "revenue">>,
       <<"Show", "ws", "orders">> >>

\* what the text area may hold when Run Query is clicked: nothing, blanks
\* or a typed question
QueryInputs == {<<>>, <<"ws">>, <<"ws", "list", "ws", "orders">>}

\* The steps of a script run change only the session state and the steps
\* of a handler only the backend, so their order matters only where the
\* two meet (the POST, its response, the timeout).  A script run that goes
\* on after a timeout is taken to run once the abandoned request has been
\* served: the POST that may follow waits for the event loop anyway.
Quiet == loop = NoRequest /\ \A r \in Requests : req[r].pc \in {"idle", "done"}

\* a request number is left for one more POST /query
FreeRequest == \E r \in Requests : req[r].pc = "idle"
NextRequest == CHOOSE r \in Requests :
                   req[r].pc = "idle" /\ \A p \in Requests : p < r => req[p].pc # "idle"

\* the user clicks example button i: Streamlit runs the script from the top
ClickExample(i) ==
    /\ front.pc = "idle"
    /\ Quiet
    /\ FreeRequest
    /\ front' = [front EXCEPT !.pc = "L111", !.clicked = "example", !.example = i]
    /\ UNCHANGED <<config, chat_history_db, heap, loop, open, req, sent, tool>>

\* the user clicks Run Query while the text area holds q
ClickRunQuery(q) ==
    /\ front.pc = "idle"
    /\ Quiet
    /\ Strip(q) # <<>> => FreeRequest
    /\ front' = [front EXCEPT !.pc = "L111", !.clicked = "run", !.query = q]
    /\ UNCHANGED <<config, chat_history_db, heap, loop, open, req, sent, tool>>

\* the statement after a call of process_query_execution; at the end of the
\* script the widget values of the run are gone
AfterCall(f, site) ==
    IF site = "L111"
    THEN [f EXCEPT !.pc = "L268", !.resume = "none"]
    ELSE [f EXCEPT !.pc = "idle", !.resume = "none",
                   !.clicked = "none", !.example = 0, !.query = <<>>]

\* app.py:63  st.session_state.run_query_flag = False
\* variant: the flag is left as it is
KeepRunQueryFlag(flag) == flag
ClearRunQueryFlag(flag) == FALSE

\* app.py:58-64  process_query_execution, called at lines 111 and 316
ProcessQueryExecution ==
    /\ front.pc \in {"L111", "L316"}
    /\ Quiet
    /\ front' = IF ~front.run_query_flag
                THEN AfterCall(front, front.pc)
                ELSE [front EXCEPT
                        !.run_query_flag = ClearRunQueryFlag(@),
                        !.query_to_execute = front.query_text,
                        !.resume = front.pc, !.pc = "L74"]
    /\ UNCHANGED <<config, chat_history_db, heap, loop, open, req, sent, tool>>

\* app.py:74 -> 48-54  requests.post(BACKEND_URL, json={question, session_id});
\* the backend reads the request when its event loop is free
ExecuteBackendQuery ==
    /\ front.pc = "L74"
    /\ FreeRequest
    /\ loop = NoRequest
    /\ tool.pc = "idle"
    /\ req' = [req EXCEPT ![NextRequest] =
                 [@ EXCEPT !.pc = "L160", !.session_id = front.session_id,
                           !.question = front.query_to_execute]]
    /\ front' = [front EXCEPT !.pc = "L50", !.awaiting = NextRequest]
    /\ UNCHANGED <<config, chat_history_db, heap, loop, open, sent, tool>>

\* the entry app.py:94-98 appends to st.session_state.history
HistoryEntry(question, result) ==
    [question |-> question, summary |-> result.summary, sql |-> result.raw_sql]

\* app.py:55-108  the response is there: raise_for_status raises for a 500
\* and `except Exception` shows the error; a 200 updates the session state
ReceiveResponse ==
    /\ front.pc = "L50"
    /\ req[front.awaiting].pc = "done"
    /\ sent.to = front.awaiting
    /\ front' = [AfterCall(front, front.resume) EXCEPT
                   !.awaiting = NoRequest, !.query_to_execute = <<>>,
                   !.history = IF sent.status = 200
                               THEN Append(@, HistoryEntry(front.query_to_execute, sent))
                               ELSE @]
    /\ UNCHANGED <<config, chat_history_db, heap, loop, open, req, sent, tool>>

\* app.py:103-105  requests.exceptions.Timeout after 90 s without a response;
\* the backend goes on with the request
RequestTimeout ==
    /\ front.pc = "L50"
    /\ req[front.awaiting].pc # "done"
    /\ front' = [AfterCall(front, front.resume) EXCEPT
                   !.awaiting = NoRequest, !.query_to_execute = <<>>]
    /\ UNCHANGED <<config, chat_history_db, heap, loop, open, req, sent, tool>>

\* app.py:260-268  the example buttons; st.rerun() starts the script again,
\* with no button clicked
RenderExampleQueries ==
    /\ front.pc = "L268"
    /\ Quiet
    /\ front' = IF front.clicked = "example"
                THEN [front EXCEPT !.query_text = examples[front.example],
                                   !.run_query_flag = TRUE,
                                   !.asked = Append(@, examples[front.example]),
                                   !.clicked = "none", !.example = 0,
                                   !.pc = "L111"]
                ELSE [front EXCEPT !.pc = "L312"]
    /\ UNCHANGED <<config, chat_history_db, heap, loop, open, req, sent, tool>>

\* app.py:273-312  the text area and the Run Query button
RenderQueryInput ==
    /\ front.pc = "L312"
    /\ Quiet
    /\ front' = IF front.clicked = "run" /\ Strip(front.query) # <<>>
                THEN [front EXCEPT !.query_text = front.query,
                                   !.run_query_flag = TRUE,
                                   !.asked = Append(@, front.query),
                                   !.pc = "L316"]
                ELSE [front EXCEPT !.pc = "L316"]
    /\ UNCHANGED <<config, chat_history_db, heap, loop, open, req, sent, tool>>

Frontend ==
    \/ \E i \in 1..Min(MaxExample, Len(examples)) : ClickExample(i)
    \/ \E q \in QueryInputs : ClickRunQuery(q)
    \/ ProcessQueryExecution
    \/ ExecuteBackendQuery
    \/ ReceiveResponse
    \/ RequestTimeout
    \/ RenderExampleQueries
    \/ RenderQueryInput

\* ---------------------------------------------------------- specification
\* the statements of the handler
Steps(r) ==
    \/ GetHistory(r)
    \/ ExtractConnect(r)
    \/ ExtractQuery(r)
    \/ CheckSchema(r)
    \/ BuildPrompt(r)
    \/ LlmAttempt(r)
    \/ AfterSqlGen(r)
    \/ ExecuteCall(r)
    \/ ExecuteCursor(r)
    \/ CheckResult(r)
    \/ AppendQuestion(r)
    \/ AppendSql(r)
    \/ StoreHistory(r)
    \/ RaiseExecutionError(r)
    \/ StartSummary(r)
    \/ AfterSummary(r)
    \/ Return(r)

Handler(r) == Arrive(r) \/ Steps(r)

SchemaTool == ToolCall \/ ToolConnect \/ ToolTables \/ ToolColumns \/ ToolClose

Next == (\E r \in Requests : Handler(r)) \/ SchemaTool

Spec == Init /\ [][Next]_vars

\* one browser session and the backend that serves it
FrontNext == Frontend \/ (\E r \in Requests : Steps(r))

FrontSpec == Init /\ [][FrontNext]_vars

\* app.py:9, 50-56  The frontend posts to whatever server BACKEND_URL names
\* and only looks at the status and the JSON body of the answer: here the
\* server answers a request it has read with any status and body.
ServerAnswers ==
    \E r \in Requests :
        /\ req[r].pc = "L160"
        /\ \E resp \in {HttpError("execution", ExecutionErrorMsg),
                         [NoResponse EXCEPT !.status = 200, !.kind = "ok",
                                            !.raw_sql = <<"select">>,
                                            !.summary = DefaultSummary]} :
             sent' = [resp EXCEPT !.to = r]
        /\ req' = [req EXCEPT ![r] = Done(@)]
        /\ UNCHANGED <<config, chat_history_db, front, heap, loop, open, tool>>

\* one browser session and some server
BrowserNext == Frontend \/ ServerAnswers

BrowserSpec == Init /\ [][BrowserNext]_vars

\* Streamlit runs a script to its end, requests.post comes back with an
\* answer or with the timeout, and the server answers what it has read;
\* nothing makes the user click.
ScriptStep ==
    ProcessQueryExecution \/ RenderExampleQueries \/ RenderQueryInput
                          \/ ExecuteBackendQuery

FairBrowserSpec ==
    /\ BrowserSpec
    /\ WF_vars(ScriptStep)
    /\ WF_vars(ReceiveResponse \/ RequestTimeout)
    /\ WF_vars(ServerAnswers)

TypeOK ==
    /\ loop \in Requests \cup {NoRequest}
    /\ \A s \in Sessions : chat_history_db[s] \in Requests \cup {NoList}
    /\ \A r \in Requests : req[r].attempt \in 0..(max_retries - 1)

\* ------------------------------------------------------------ properties
InFlight(r) == req[r].pc \notin {"idle", "done"}

\* the requests whose handler went through the history update and ended
Recorded(r) == req[r].pc = "done" /\ req[r].stored

\* request r has ended and its response is the one sent last
Answered(r) == req[r].pc = "done" /\ sent.to = r

\* positions of the entries request r put into a list
EntriesBy(list, r) == {i \in 1..Len(list) : list[i].by = r}

\* the turn of request r sits at positions i, i+1 of the list
TurnAt(list, i, r) ==
    /\ i + 1 <= Len(list)
    /\ list[i] = Entry("User Question", req[r].question, r)
    /\ req[r].executed # <<>>
    /\ list[i + 1] = Entry("Generated SQL", req[r].executed[1], r)

\* request r's turn is in its session's log, once, as an adjacent pair
TurnOnce(r) ==
    LET log == Log(req[r].session_id) IN
    /\ Cardinality(EntriesBy(log, r)) = 2
    /\ \E i \in 1..Len(log) : i % 2 = 1 /\ TurnAt(log, i, r)

\* C1: when no request of a session is in flight, the session's log holds
\* the turn of every request of that session that went through the history
\* update, each as a question entry immediately followed by its own SQL
\* entry, and nothing else.
C1_NoLostTurn ==
    \A s \in Sessions :
        LET D == {r \in Requests : Recorded(r) /\ req[r].session_id = s} IN
        (\A r \in Requests : req[r].session_id = s => ~InFlight(r)) =>
            /\ Len(Log(s)) = 2 * Cardinality(D)
            /\ \A r \in D : TurnOnce(r)

C1_Witness ==
    \E r1, r2 \in Requests :
        /\ r1 # r2
        /\ Recorded(r1) /\ Recorded(r2)
        /\ req[r1].session_id = req[r2].session_id
        /\ Len(Log(req[r1].session_id)) = 4

\* C2: no statement handed to execute_sql_query contains a standalone
\* forbidden verb (the safety validator rejected it before).
C2_ForbiddenNeverExecuted ==
    \A r \in Requests :
        \A i \in 1..Len(req[r].executed) : ~HasForbiddenVerb(req[r].executed[i])

\* C3: every entry of a session's log was appended by a request of that
\* session, and the history put into a request's SQL-generation prompt
\* holds only entries of the request's own session.
C3_SessionIsolation ==
    /\ \A s \in Sessions :
         \A i \in 1..Len(Log(s)) : req[Log(s)[i].by].session_id = s
    /\ \A r \in Requests :
         \A i \in 1..Len(req[r].prompt_history) :
             req[req[r].prompt_history[i].by].session_id = req[r].session_id

C3_Witness ==
    \E r \in Requests :
        /\ req[r].pc = "L169"
        /\ \E s \in Sessions : s # req[r].session_id /\ Len(Log(s)) = 2

\* the connections opened for caller c that are still open
OpenOf(c) == {x \in open : x[1] = c}

\* C4: a request holds at most one open connection at any time and none
\* once its handler is over, and get_full_db_schema leaves none open when
\* it has returned or raised.
C4_ConnectionsReleased ==
    /\ \A r \in Requests :
         /\ Cardinality(OpenOf(r)) <= 1
         /\ req[r].pc = "done" => OpenOf(r) = {}
    /\ Cardinality(OpenOf(Tool)) <= 1
    /\ tool.pc = "done" => OpenOf(Tool) = {}

\* C5: a request whose execute_sql_query returned the error value is
\* answered with status 500 carrying that error message, and its turn is
\* in the session's log exactly once.
C5_ExecutionErrorRecorded ==
    \A r \in Requests :
        (Answered(r) /\ sent.returned.kind = "error") =>
            /\ sent.status = 500
            /\ sent.detail = sent.returned.error
            /\ TurnOnce(r)

C5_Witness ==
    \E r \in Requests :
        /\ Answered(r)
        /\ sent.returned = ErrorResult(ExecutionErrorMsg)
        /\ sent.status = 500
        /\ Len(Log(req[r].session_id)) >= 2

\* C6: a request whose summary call raised after a successful execution
\* still ends with status 200, carrying the SQL, the rows and the fallback
\* summary, and its turn is in the session's log.
C6_SummaryFailureDegrades ==
    \A r \in Requests :
        "L194" \in req[r].llm_raised =>
            /\ req[r].pc \in {"L197", "L206", "L207", "L208", "L211", "done"}
            /\ InFlight(r) => req[r].results_data.kind = "rows"
            /\ req[r].pc = "done" => TurnOnce(r)
            /\ Answered(r) =>
                 /\ sent.status = 200
                 /\ sent.raw_sql = req[r].executed[1]
                 /\ sent.results_data = sent.returned
                 /\ sent.returned.kind = "rows"
                 /\ sent.summary = FallbackSummary

C6_Witness ==
    \E r \in Requests :
        /\ Answered(r)
        /\ "L194" \in req[r].llm_raised
        /\ sent.summary = FallbackSummary
        /\ sent.results_data.n > 0

\* C7: a request whose SQL-generation call raised ends with status 500,
\* hands no statement to execute_sql_query and puts no entry in any list.
C7_SqlGenFailureFatal ==
    \A r \in Requests :
        "L169" \in req[r].llm_raised =>
            /\ req[r].pc \in {"L170", "done"}
            /\ Answered(r) => sent.status = 500 /\ sent.kind = "llm"
            /\ req[r].executed = <<>>
            /\ \A o \in Requests : EntriesBy(heap[o], r) = {}

C7_Witness ==
    \E r \in Requests :
        /\ Answered(r)
        /\ "L169" \in req[r].llm_raised
        /\ sent.status = 500

\* C8: a request whose schema extraction failed called extract_db_schema
\* once, never called the language model, handed no statement to
\* execute_sql_query, put no entry in any list and ends with status 500.
C8_SchemaFailureFatal ==
    \A r \in Requests :
        req[r].schema_failed =>
            /\ req[r].pc \in {"L163", "done"}
            /\ Answered(r) => sent.status = 500
            /\ req[r].schema_calls = 1
            /\ req[r].llm_calls = 0
            /\ req[r].executed = <<>>
            /\ \A o \in Requests : EntriesBy(heap[o], r) = {}

C8_Witness ==
    \E r \in Requests :
        /\ Answered(r)
        /\ req[r].schema_failed
        /\ sent.kind = "schema"

\* C9: the rows execute_sql_query returns never exceed the preview limit.
C9_PreviewBounded ==
    \A r \in Requests :
        req[r].results_data.kind = "rows" => req[r].results_data.n <= PreviewRowLimit

\* C10: no request ends with an exception raised out of execute_sql_query,
\* and the handler takes the error branch exactly when execute_sql_query
\* returned the error value: a list of rows, empty or not, goes on.
C10_ErrorValueOnly ==
    \A r \in Requests :
        req[r].executed # <<>> =>
            /\ req[r].pc \in {"L182", "L183", "L184", "L186"} =>
                 req[r].results_data.kind = "error"
            /\ req[r].pc \in {"L189", "L193", "L194", "L197",
                              "L206", "L207", "L208", "L211"} =>
                 req[r].results_data.kind = "rows"
            /\ Answered(r) =>
                 /\ sent.kind # "unhandled"
                 /\ sent.kind = "execution" <=> sent.returned.kind = "error"
                 /\ sent.kind = "ok" <=> sent.returned.kind = "rows"

C10_Witness ==
    \E r \in Requests :
        /\ Answered(r)
        /\ sent.returned = RowsResult(0)
        /\ sent.kind = "ok"

\* a is an initial part of b
IsPrefix(a, b) == Len(a) <= Len(b) /\ SubSeq(b, 1, Len(a)) = a

\* the finished requests of session s that reached execute_sql_query
ExecutedIn(s) ==
    {r \in Requests : req[r].pc = "done" /\ req[r].session_id = s
                                        /\ req[r].executed # <<>>}

\* between handlers the log of s is the turns of the requests of s that
\* reached execute_sql_query, one pair each, in the order the requests
\* arrived
PairsInArrivalOrder(s) ==
    LET log == Log(s)
        E == ExecutedIn(s)
    IN  /\ Len(log) = 2 * Cardinality(E)
        /\ \A r \in E :
              TurnAt(log, 2 * Cardinality({p \in E : p < r}) + 1, r)

\* a step only adds entries at the end of a session's log, at most one
LogGrowsAtEnd(s) ==
    /\ IsPrefix(Log(s), Log(s)')
    /\ Len(Log(s)') <= Len(Log(s)) + 1 \/ Log(s) = <<>>

\* C11: every step leaves the entries of each session's log as they are
\* and only adds at the end; whenever the event loop is between handlers
\* each log is exactly the (question, SQL) pairs of the requests of that
\* session that reached SQL execution, one pair per request, in arrival
\* order with the most recent last.
C11_AppendOnlyPairs ==
    /\ [][\A s \in Sessions : LogGrowsAtEnd(s)]_vars
    /\ [](loop = NoRequest => \A s \in Sessions : PairsInArrivalOrder(s))

C11_Witness ==
    \E r1, r2 \in Requests :
        /\ r1 < r2
        /\ loop = NoRequest
        /\ {r1, r2} \subseteq ExecutedIn(req[r1].session_id)
        /\ Log(req[r1].session_id)[1].by = r1
        /\ Log(req[r1].session_id)[4].by = r2
        /\ sent.to = r2 /\ sent.kind = "execution"

\* request r is inside extract_db_schema, llm_api_call or execute_sql_query
InBlockingCall(r) == loop = r /\ req[r].pc \in {"L78", "L169", "L194", "L139"}

\* C12: while a request is inside a database call or a language-model
\* call, every other request that has arrived for another session and has
\* not been answered can take its next step.
C12_SlowQueryDelaysNone ==
    \A r, p \in Requests :
        (/\ r # p
         /\ InBlockingCall(r)
         /\ InFlight(p)
         /\ req[p].session_id # req[r].session_id) => ENABLED Handler(p)

\* request r is inside llm_api_call / llm_api_call has just handed back
InLlmCall(r) == req[r].pc \in {"L169", "L194"}
LlmCallOver(r) == req[r].pc \in {"L170", "L197"}

\* a step of request r inside llm_api_call is one HTTP attempt: the call
\* goes on with the next attempt index or is over
OneHttpAttempt(r) ==
    (InLlmCall(r) /\ req'[r] # req[r]) =>
        \/ req'[r].pc = req[r].pc /\ req'[r].attempt = req[r].attempt + 1
        \/ req'[r].pc \in {"L170", "L197"} /\ req'[r].attempt = req[r].attempt

\* C14: a call of llm_api_call makes at most max_retries HTTP attempts,
\* one per step, and goes on only while no text has been obtained; when it
\* is over it has either raised or returned a text that is not empty.
C14_LlmCallBounded ==
    /\ [][\A r \in Requests : OneHttpAttempt(r)]_vars
    /\ [](\A r \in Requests :
            /\ (InLlmCall(r) \/ LlmCallOver(r)) => req[r].attempt + 1 <= max_retries
            /\ InLlmCall(r) => req[r].llm.kind = "none"
            /\ LlmCallOver(r) =>
                 /\ req[r].llm.kind \in {"text", "raise"}
                 /\ req[r].llm.kind = "text" => req[r].llm.text # <<>>)

C14_Witness ==
    \E r \in Requests :
        /\ req[r].pc = "L170"
        /\ req[r].llm.kind = "text"
        /\ req[r].attempt + 1 = max_retries

\* C15: in a call of llm_api_call every retry was preceded by a wait: after
\* k failed attempts that were retried the waits were 2^0, ..., 2^(k-1)
\* seconds, whatever made the attempts fail, and the attempt that ends the
\* call is followed by no wait.
C15_BackoffBeforeEveryRetry ==
    \A r \in Requests :
        (InLlmCall(r) \/ LlmCallOver(r)) =>
            /\ Len(req[r].slept) = req[r].attempt
            /\ \A i \in 1..Len(req[r].slept) : req[r].slept[i] = Pow2(i - 1)

\* C16: a request is answered with 'Database schema extraction failed'
\* only if its extract_db_schema failed, and a finished request whose
\* schema was extracted went on to the SQL-generation call.
C16_SchemaErrorOnlyOnFailure ==
    \A r \in Requests :
        /\ (Answered(r) /\ sent.kind = "schema") => req[r].schema_failed
        /\ (req[r].pc = "done" /\ req[r].schema_calls = 1
                               /\ ~req[r].schema_failed) => req[r].llm_calls >= 1

\* C13: when the frontend waits for the user and no request is in flight,
\* st.session_state.history has one entry per turn of the log that
\* chat_history_db keeps for the frontend's session id, with the same
\* question and the same SQL, in the same order.
C13_HistoryMatchesLog ==
    (front.pc = "idle" /\ Quiet) =>
        LET log == Log(front.session_id) IN
        /\ Len(log) = 2 * Len(front.history)
        /\ \A k \in 1..Len(front.history) :
              /\ 2 * k <= Len(log)
              /\ front.history[k].question = log[2 * k - 1].text
              /\ front.history[k].sql = log[2 * k].text

\* the requests the frontend has posted
Posted == {r \in Requests : req[r].pc # "idle"}

\* an action has set run_query_flag and its request is not posted yet
Pending == IF front.run_query_flag \/ front.pc = "L74" THEN 1 ELSE 0

\* what holds in every state of a script run
PostsMatchActions ==
    /\ Len(front.asked) = Cardinality(Posted) + Pending
    /\ \A r \in Posted :
          /\ r <= Len(front.asked)
          /\ req[r].question = front.asked[r]
          /\ req[r].session_id = front.session_id
    /\ front.run_query_flag => front.pc \in {"L111", "L316"}
    /\ front.pc = "idle" => Pending = 0
    /\ (front.clicked = "run" /\ Strip(front.query) = <<>>) =>
          /\ Pending = 0
          /\ front.pc \notin {"L74", "L50"}

\* the k-th action that set run_query_flag has its request posted
PostedFor(k) == k \in Posted /\ req[k].question = front.asked[k]

\* C17: the requests posted are, one for one and in order, the texts
\* stored by the user actions that set run_query_flag, each sent with the
\* session id, with at most one of them still to be posted and none once
\* the script run is over; run_query_flag is false while the request is
\* out and after it; a script run started by Run Query on a blank text
\* posts nothing; and every action that sets the flag leads to its request
\* being posted and to the script run ending with the flag false.
C17_OneRequestPerAction ==
    /\ []PostsMatchActions
    /\ \A k \in Requests :
          (Len(front.asked) = k /\ front.run_query_flag) ~> PostedFor(k)
    /\ front.run_query_flag ~> (front.pc = "idle" /\ ~front.run_query_flag)

C17_Witness ==
    /\ front.pc = "idle"
    /\ Len(front.asked) = 2
    /\ front.asked[1] = examples[1]
    /\ front.asked[2] = <<"ws", "list", "ws", "orders">>
    /\ Cardinality(Posted) = 2
    /\ sent.to = 2 /\ sent.status = 500
    /\ Len(front.history) = 1

====
